---- MODULE Spec2Model ----
(***************************************************************************)
(* A model of the Telugu rule engine of src/Telugu_ruleengine.py: the      *)
(* lexical tables (module globals), the pure components working on them    *)
(* (Morphology, Sandhi, Syntax, Semantics, Pragmatics, Style, Validator)   *)
(* and the two public operations of TeluguRuleEngine, generate and         *)
(* load_json.                                                              *)
(*                                                                         *)
(* A Python str is modelled as the sequence of its code points.  A Telugu  *)
(* code point is written by its Unicode name: a consonant in lower case    *)
(* ("pa" is U+0C2A), an independent vowel in upper case ("AA" is U+0C06),  *)
(* a dependent vowel sign with a leading "+" ("+aa" is U+0C3E), "+m" the   *)
(* anusvara, "+h" the visarga and "+" the virama; an ASCII character is    *)
(* itself and "danda" is U+0964.  Python's None is the value None below.   *)
(* A dict that the code only looks keys up in is a function; a dict that   *)
(* the code iterates over is the sequence of its items in insertion order. *)
(***************************************************************************)
EXTENDS Integers, Sequences, FiniteSets, TLC

VARIABLES
    VERB_OVERRIDES,      \* module global, merged into by load_json
    NOUNS,               \* module global, assigned into by load_json
    PRONOUNS,            \* module global
    HONORIFICS,          \* module global
    TEMPLATES,           \* module global
    SPOKEN_CONVERSIONS,  \* module global
    DIALECT_MAP,         \* module global
    op,                  \* the call the client made last, "idle" between calls
    args,                \* the arguments of that call
    ret,                 \* what the call returned (a str, or the dict of conjugate)
    err,                 \* the exception the call raised, "" when it returned
    trace                \* generate only: the value of each local of the call

tables == <<VERB_OVERRIDES, NOUNS, PRONOUNS, HONORIFICS, TEMPLATES, SPOKEN_CONVERSIONS, DIALECT_MAP>>
vars == <<VERB_OVERRIDES, NOUNS, PRONOUNS, HONORIFICS, TEMPLATES, SPOKEN_CONVERSIONS, DIALECT_MAP, op, args, ret, err, trace>>

\* ---------------------------------------------------------------- bounds
\* longest text, in code points, handed to Sandhi.join as left or as right
MaxLen == 2
\* most words in a text handed to Style.apply and Pragmatics.dialect
MaxWords == 2

\* ------------------------------------------------------- embedded data
\* VERB_OVERRIDES as embedded: stem -> tense -> subject -> finite form
Seed_VERB_OVERRIDES ==
    (<<"pa", "+oo">> :> (("present" :> ((<<"na", "+ee", "na", "+u">> :> <<"pa", "+oo", "ta", "+aa", "na", "+u">>)
                @@ (<<"na", "+ii", "va", "+u">> :> <<"pa", "+oo", "ta", "+aa", "va", "+u">>)
                @@ (<<"na", "+u", "va", "+", "va", "+u">> :> <<"pa", "+oo", "ta", "+aa", "va", "+u">>)
                @@ (<<"A", "ta", "na", "+u">> :> <<"pa", "+oo", "ta", "+aa", "dda", "+u">>)
                @@ (<<"AA", "ma", "+e">> :> <<"pa", "+oo", "ta", "+u", "+m", "da", "+i">>)
                @@ (<<"I", "ta", "na", "+u">> :> <<"pa", "+oo", "ta", "+aa", "dda", "+u">>)
                @@ (<<"AA", "ya", "na">> :> <<"pa", "+oo", "ta", "+aa", "ra", "+u">>)
                @@ (<<"AA", "va", "+i", "dda">> :> <<"pa", "+oo", "ta", "+aa", "ra", "+u">>)
                @@ (<<"ma", "+ee", "ma", "+u">> :> <<"pa", "+oo", "ta", "+aa", "ma", "+u">>)
                @@ (<<"ma", "na", "ma", "+u">> :> <<"pa", "+oo", "ta", "+aa", "ma", "+u">>)
                @@ (<<"ma", "+ii", "ra", "+u">> :> <<"pa", "+oo", "ta", "+aa", "ra", "+u">>)
                @@ (<<"va", "+aa", "ra", "+u">> :> <<"pa", "+oo", "ta", "+aa", "ra", "+u">>)))
        @@ ("past" :> ((<<"na", "+ee", "na", "+u">> :> <<"pa", "+oo", "ya", "+aa", "na", "+u">>)
                @@ (<<"na", "+ii", "va", "+u">> :> <<"pa", "+oo", "ya", "+aa", "va", "+u">>)
                @@ (<<"na", "+u", "va", "+", "va", "+u">> :> <<"pa", "+oo", "ya", "+aa", "va", "+u">>)
                @@ (<<"A", "ta", "na", "+u">> :> <<"pa", "+oo", "ya", "+aa", "dda", "+u">>)
                @@ (<<"AA", "ma", "+e">> :> <<"pa", "+oo", "ya", "+i", "+m", "da", "+i">>)
                @@ (<<"I", "ta", "na", "+u">> :> <<"pa", "+oo", "ya", "+aa", "dda", "+u">>)
                @@ (<<"AA", "ya", "na">> :> <<"pa", "+oo", "ya", "+aa", "ra", "+u">>)
                @@ (<<"AA", "va", "+i", "dda">> :> <<"pa", "+oo", "ya", "+aa", "ra", "+u">>)
                @@ (<<"ma", "+ee", "ma", "+u">> :> <<"pa", "+oo", "ya", "+aa", "ma", "+u">>)
                @@ (<<"ma", "na", "ma", "+u">> :> <<"pa", "+oo", "ya", "+aa", "ma", "+u">>)
                @@ (<<"ma", "+ii", "ra", "+u">> :> <<"pa", "+oo", "ya", "+aa", "ra", "+u">>)
                @@ (<<"va", "+aa", "ra", "+u">> :> <<"pa", "+oo", "ya", "+aa", "ra", "+u">>)))
        @@ ("future" :> ((<<"na", "+ee", "na", "+u">> :> <<"pa", "+oo", "ta", "+aa", "na", "+u">>)
                @@ (<<"na", "+ii", "va", "+u">> :> <<"pa", "+oo", "ta", "+aa", "va", "+u">>)
                @@ (<<"na", "+u", "va", "+", "va", "+u">> :> <<"pa", "+oo", "ta", "+aa", "va", "+u">>)
                @@ (<<"A", "ta", "na", "+u">> :> <<"pa", "+oo", "ta", "+aa", "dda", "+u">>)
                @@ (<<"AA", "ma", "+e">> :> <<"pa", "+oo", "ta", "+u", "+m", "da", "+i">>)
                @@ (<<"AA", "ya", "na">> :> <<"pa", "+oo", "ta", "+aa", "ra", "+u">>)
                @@ (<<"AA", "va", "+i", "dda">> :> <<"pa", "+oo", "ta", "+aa", "ra", "+u">>)
                @@ (<<"ma", "+ee", "ma", "+u">> :> <<"pa", "+oo", "ta", "+aa", "ma", "+u">>)
                @@ (<<"ma", "+ii", "ra", "+u">> :> <<"pa", "+oo", "ta", "+aa", "ra", "+u">>)
                @@ (<<"va", "+aa", "ra", "+u">> :> <<"pa", "+oo", "ta", "+aa", "ra", "+u">>)))))
    @@ (<<"ca", "da", "+u", "va", "+u">> :> (("present" :> ((<<"na", "+ee", "na", "+u">> :> <<"ca", "da", "+u", "va", "+u", "ta", "+aa", "na", "+u">>)
                @@ (<<"na", "+ii", "va", "+u">> :> <<"ca", "da", "+u", "va", "+u", "ta", "+aa", "va", "+u">>)
                @@ (<<"na", "+u", "va", "+", "va", "+u">> :> <<"ca", "da", "+u", "va", "+u", "ta", "+aa", "va", "+u">>)
                @@ (<<"A", "ta", "na", "+u">> :> <<"ca", "da", "+u", "va", "+u", "ta", "+aa", "dda", "+u">>)
                @@ (<<"AA", "ma", "+e">> :> <<"ca", "da", "+u", "va", "+u", "ta", "+u", "+m", "da", "+i">>)
                @@ (<<"AA", "ya", "na">> :> <<"ca", "da", "+u", "va", "+u", "ta", "+aa", "ra", "+u">>)
                @@ (<<"AA", "va", "+i", "dda">> :> <<"ca", "da", "+u", "va", "+u", "ta", "+aa", "ra", "+u">>)
                @@ (<<"ma", "+ee", "ma", "+u">> :> <<"ca", "da", "+u", "va", "+u", "ta", "+aa", "ma", "+u">>)
                @@ (<<"ma", "+ii", "ra", "+u">> :> <<"ca", "da", "+u", "va", "+u", "ta", "+aa", "ra", "+u">>)
                @@ (<<"va", "+aa", "ra", "+u">> :> <<"ca", "da", "+u", "va", "+u", "ta", "+aa", "ra", "+u">>)))
        @@ ("past" :> ((<<"na", "+ee", "na", "+u">> :> <<"ca", "da", "+i", "va", "+aa", "na", "+u">>)
                @@ (<<"na", "+ii", "va", "+u">> :> <<"ca", "da", "+i", "va", "+aa", "va", "+u">>)
                @@ (<<"na", "+u", "va", "+", "va", "+u">> :> <<"ca", "da", "+i", "va", "+aa", "va", "+u">>)
                @@ (<<"A", "ta", "na", "+u">> :> <<"ca", "da", "+i", "va", "+aa", "dda", "+u">>)
                @@ (<<"AA", "ma", "+e">> :> <<"ca", "da", "+i", "va", "+i", "+m", "da", "+i">>)
                @@ (<<"AA", "ya", "na">> :> <<"ca", "da", "+i", "va", "+aa", "ra", "+u">>)
                @@ (<<"AA", "va", "+i", "dda">> :> <<"ca", "da", "+i", "va", "+aa", "ra", "+u">>)
                @@ (<<"ma", "+ee", "ma", "+u">> :> <<"ca", "da", "+i", "va", "+aa", "ma", "+u">>)
                @@ (<<"ma", "+ii", "ra", "+u">> :> <<"ca", "da", "+i", "va", "+aa", "ra", "+u">>)
                @@ (<<"va", "+aa", "ra", "+u">> :> <<"ca", "da", "+i", "va", "+aa", "ra", "+u">>)))
        @@ ("future" :> ((<<"na", "+ee", "na", "+u">> :> <<"ca", "da", "+u", "va", "+u", "ta", "+aa", "na", "+u">>)
                @@ (<<"na", "+ii", "va", "+u">> :> <<"ca", "da", "+u", "va", "+u", "ta", "+aa", "va", "+u">>)
                @@ (<<"na", "+u", "va", "+", "va", "+u">> :> <<"ca", "da", "+u", "va", "+u", "ta", "+aa", "va", "+u">>)
                @@ (<<"A", "ta", "na", "+u">> :> <<"ca", "da", "+u", "va", "+u", "ta", "+aa", "dda", "+u">>)
                @@ (<<"AA", "ma", "+e">> :> <<"ca", "da", "+u", "va", "+u", "ta", "+u", "+m", "da", "+i">>)
                @@ (<<"AA", "ya", "na">> :> <<"ca", "da", "+u", "va", "+u", "ta", "+aa", "ra", "+u">>)
                @@ (<<"AA", "va", "+i", "dda">> :> <<"ca", "da", "+u", "va", "+u", "ta", "+aa", "ra", "+u">>)
                @@ (<<"ma", "+ee", "ma", "+u">> :> <<"ca", "da", "+u", "va", "+u", "ta", "+aa", "ma", "+u">>)
                @@ (<<"ma", "+ii", "ra", "+u">> :> <<"ca", "da", "+u", "va", "+u", "ta", "+aa", "ra", "+u">>)
                @@ (<<"va", "+aa", "ra", "+u">> :> <<"ca", "da", "+u", "va", "+u", "ta", "+aa", "ra", "+u">>)))))
    @@ (<<"ca", "+ee", "ya", "+u">> :> (("present" :> ((<<"na", "+ee", "na", "+u">> :> <<"ca", "+ee", "sa", "+", "ta", "+aa", "na", "+u">>)
                @@ (<<"na", "+ii", "va", "+u">> :> <<"ca", "+ee", "sa", "+", "ta", "+aa", "va", "+u">>)
                @@ (<<"na", "+u", "va", "+", "va", "+u">> :> <<"ca", "+ee", "sa", "+", "ta", "+aa", "va", "+u">>)
                @@ (<<"A", "ta", "na", "+u">> :> <<"ca", "+ee", "sa", "+", "ta", "+aa", "dda", "+u">>)
                @@ (<<"AA", "ma", "+e">> :> <<"ca", "+ee", "sa", "+", "ta", "+u", "+m", "da", "+i">>)
                @@ (<<"AA", "ya", "na">> :> <<"ca", "+ee", "sa", "+", "ta", "+aa", "ra", "+u">>)
                @@ (<<"AA", "va", "+i", "dda">> :> <<"ca", "+ee", "sa", "+", "ta", "+aa", "ra", "+u">>)
                @@ (<<"ma", "+ee", "ma", "+u">> :> <<"ca", "+ee", "sa", "+", "ta", "+aa", "ma", "+u">>)
                @@ (<<"ma", "+ii", "ra", "+u">> :> <<"ca", "+ee", "sa", "+", "ta", "+aa", "ra", "+u">>)
                @@ (<<"va", "+aa", "ra", "+u">> :> <<"ca", "+ee", "sa", "+", "ta", "+aa", "ra", "+u">>)))
        @@ ("past" :> ((<<"na", "+ee", "na", "+u">> :> <<"ca", "+ee", "sha", "+aa", "na", "+u">>)
                @@ (<<"na", "+ii", "va", "+u">> :> <<"ca", "+ee", "sha", "+aa", "va", "+u">>)
                @@ (<<"na", "+u", "va", "+", "va", "+u">> :> <<"ca", "+ee", "sha", "+aa", "va", "+u">>)
                @@ (<<"A", "ta", "na", "+u">> :> <<"ca", "+ee", "sha", "+aa", "dda", "+u">>)
                @@ (<<"AA", "ma", "+e">> :> <<"ca", "+ee", "sa", "+i", "+m", "da", "+i">>)
                @@ (<<"AA", "ya", "na">> :> <<"ca", "+ee", "sha", "+aa", "ra", "+u">>)
                @@ (<<"AA", "va", "+i", "dda">> :> <<"ca", "+ee", "sha", "+aa", "ra", "+u">>)
                @@ (<<"ma", "+ee", "ma", "+u">> :> <<"ca", "+ee", "sha", "+aa", "ma", "+u">>)
                @@ (<<"ma", "+ii", "ra", "+u">> :> <<"ca", "+ee", "sha", "+aa", "ra", "+u">>)
                @@ (<<"va", "+aa", "ra", "+u">> :> <<"ca", "+ee", "sha", "+aa", "ra", "+u">>)))
        @@ ("future" :> ((<<"na", "+ee", "na", "+u">> :> <<"ca", "+ee", "sa", "+", "ta", "+aa", "na", "+u">>)
                @@ (<<"na", "+ii", "va", "+u">> :> <<"ca", "+ee", "sa", "+", "ta", "+aa", "va", "+u">>)
                @@ (<<"na", "+u", "va", "+", "va", "+u">> :> <<"ca", "+ee", "sa", "+", "ta", "+aa", "va", "+u">>)
                @@ (<<"A", "ta", "na", "+u">> :> <<"ca", "+ee", "sa", "+", "ta", "+aa", "dda", "+u">>)
                @@ (<<"AA", "ma", "+e">> :> <<"ca", "+ee", "sa", "+", "ta", "+u", "+m", "da", "+i">>)
                @@ (<<"AA", "ya", "na">> :> <<"ca", "+ee", "sa", "+", "ta", "+aa", "ra", "+u">>)
                @@ (<<"AA", "va", "+i", "dda">> :> <<"ca", "+ee", "sa", "+", "ta", "+aa", "ra", "+u">>)
                @@ (<<"ma", "+ee", "ma", "+u">> :> <<"ca", "+ee", "sa", "+", "ta", "+aa", "ma", "+u">>)
                @@ (<<"ma", "+ii", "ra", "+u">> :> <<"ca", "+ee", "sa", "+", "ta", "+aa", "ra", "+u">>)
                @@ (<<"va", "+aa", "ra", "+u">> :> <<"ca", "+ee", "sa", "+", "ta", "+aa", "ra", "+u">>)))))

\* NOUNS as embedded: noun -> case key -> surface form (plus the plural head "pl")
Seed_NOUNS ==
    (<<"pa", "+u", "sa", "+", "ta", "ka", "+m">> :> (("nom" :> <<"pa", "+u", "sa", "+", "ta", "ka", "+m">>)
        @@ ("acc" :> <<"pa", "+u", "sa", "+", "ta", "ka", "+aa", "na", "+", "na", "+i">>)
        @@ ("dat" :> <<"pa", "+u", "sa", "+", "ta", "ka", "+aa", "na", "+i", "ka", "+i">>)
        @@ ("gen" :> <<"pa", "+u", "sa", "+", "ta", "ka", "+m", " ", "ya", "+o", "ka", "+", "ka">>)
        @@ ("loc" :> <<"pa", "+u", "sa", "+", "ta", "ka", "+m", "la", "+oo">>)
        @@ ("ins" :> <<"pa", "+u", "sa", "+", "ta", "ka", "+m", "ta", "+oo">>)
        @@ ("pl" :> <<"pa", "+u", "sa", "+", "ta", "ka", "+aa", "la", "+u">>)))
    @@ (<<"A", "ba", "+", "ba", "+aa", "ya", "+i">> :> (("nom" :> <<"A", "ba", "+", "ba", "+aa", "ya", "+i">>)
        @@ ("acc" :> <<"A", "ba", "+", "ba", "+aa", "ya", "+i", "na", "+i">>)
        @@ ("dat" :> <<"A", "ba", "+", "ba", "+aa", "ya", "+i", "ka", "+i">>)
        @@ ("gen" :> <<"A", "ba", "+", "ba", "+aa", "ya", "+i", " ", "ya", "+o", "ka", "+", "ka">>)
        @@ ("loc" :> <<"A", "ba", "+", "ba", "+aa", "ya", "+i", "la", "+oo">>)
        @@ ("ins" :> <<"A", "ba", "+", "ba", "+aa", "ya", "+i", "ta", "+oo">>)
        @@ ("pl" :> <<"A", "ba", "+", "ba", "+aa", "ya", "+i", "la", "+u">>)))
    @@ (<<"A", "ma", "+", "ma", "+aa", "ya", "+i">> :> (("nom" :> <<"A", "ma", "+", "ma", "+aa", "ya", "+i">>)
        @@ ("acc" :> <<"A", "ma", "+", "ma", "+aa", "ya", "+i", "na", "+i">>)
        @@ ("dat" :> <<"A", "ma", "+", "ma", "+aa", "ya", "+i", "ka", "+i">>)
        @@ ("gen" :> <<"A", "ma", "+", "ma", "+aa", "ya", "+i", " ", "ya", "+o", "ka", "+", "ka">>)
        @@ ("loc" :> <<"A", "ma", "+", "ma", "+aa", "ya", "+i", "la", "+oo">>)
        @@ ("ins" :> <<"A", "ma", "+", "ma", "+aa", "ya", "+i", "ta", "+oo">>)
        @@ ("pl" :> <<"A", "ma", "+", "ma", "+aa", "ya", "+i", "la", "+u">>)))
    @@ (<<"ba", "dda", "+i">> :> (("nom" :> <<"ba", "dda", "+i">>)
        @@ ("acc" :> <<"ba", "dda", "+i", "na", "+i">>)
        @@ ("dat" :> <<"ba", "dda", "+i", "ka", "+i">>)
        @@ ("gen" :> <<"ba", "dda", "+i", " ", "ya", "+o", "ka", "+", "ka">>)
        @@ ("loc" :> <<"ba", "dda", "+i", "la", "+oo">>)
        @@ ("ins" :> <<"ba", "dda", "+i", "ya", "+i", "ta", "+oo">>)
        @@ ("pl" :> <<"ba", "dda", "+u", "la", "+u">>)))

\* PRONOUNS: pronoun -> features
Seed_PRONOUNS ==
    (<<"na", "+ee", "na", "+u">> :> (("person" :> "1")
        @@ ("num" :> "sg")
        @@ ("hon" :> "base")))
    @@ (<<"na", "+u", "va", "+", "va", "+u">> :> (("person" :> "2")
        @@ ("num" :> "sg")
        @@ ("hon" :> "low")))
    @@ (<<"na", "+ii", "va", "+u">> :> (("person" :> "2")
        @@ ("num" :> "sg")
        @@ ("hon" :> "low")))
    @@ (<<"ma", "+ii", "ra", "+u">> :> (("person" :> "2")
        @@ ("num" :> "pl")
        @@ ("hon" :> "high")))
    @@ (<<"A", "ta", "na", "+u">> :> (("person" :> "3")
        @@ ("num" :> "sg")
        @@ ("gender" :> "m")
        @@ ("hon" :> "base")))
    @@ (<<"AA", "ma", "+e">> :> (("person" :> "3")
        @@ ("num" :> "sg")
        @@ ("gender" :> "f")
        @@ ("hon" :> "base")))
    @@ (<<"AA", "ya", "na">> :> (("person" :> "3")
        @@ ("num" :> "sg")
        @@ ("gender" :> "m")
        @@ ("hon" :> "high")))
    @@ (<<"AA", "va", "+i", "dda">> :> (("person" :> "3")
        @@ ("num" :> "sg")
        @@ ("gender" :> "f")
        @@ ("hon" :> "high")))
    @@ (<<"ma", "+ee", "ma", "+u">> :> (("person" :> "1")
        @@ ("num" :> "pl")
        @@ ("hon" :> "base")))
    @@ (<<"va", "+aa", "ra", "+u">> :> (("person" :> "3")
        @@ ("num" :> "pl")
        @@ ("hon" :> "base")))

\* HONORIFICS: formality level -> pronoun -> pronoun
Seed_HONORIFICS ==
    ("formal" :> ((<<"na", "+ee", "na", "+u">> :> <<"na", "+ee", "na", "+u">>)
        @@ (<<"na", "+ii", "va", "+u">> :> <<"ma", "+ii", "ra", "+u">>)
        @@ (<<"na", "+u", "va", "+", "va", "+u">> :> <<"ma", "+ii", "ra", "+u">>)
        @@ (<<"A", "ta", "na", "+u">> :> <<"AA", "ya", "na">>)
        @@ (<<"AA", "ma", "+e">> :> <<"AA", "va", "+i", "dda">>)
        @@ (<<"ma", "+ii", "ra", "+u">> :> <<"ma", "+ii", "ra", "+u">>)
        @@ (<<"va", "+aa", "ra", "+u">> :> <<"va", "+aa", "ra", "+u">>)))
    @@ ("informal" :> ((<<"na", "+ee", "na", "+u">> :> <<"na", "+ee", "na", "+u">>)
        @@ (<<"na", "+ii", "va", "+u">> :> <<"na", "+u", "va", "+", "va", "+u">>)
        @@ (<<"na", "+u", "va", "+", "va", "+u">> :> <<"na", "+u", "va", "+", "va", "+u">>)
        @@ (<<"A", "ta", "na", "+u">> :> <<"A", "ta", "na", "+u">>)
        @@ (<<"AA", "ma", "+e">> :> <<"AA", "ma", "+e">>)
        @@ (<<"ma", "+ii", "ra", "+u">> :> <<"ma", "+ii", "ra", "+u">>)
        @@ (<<"va", "+aa", "ra", "+u">> :> <<"va", "+aa", "ra", "+u">>)))

\* TEMPLATES: name -> format string, a replacement field "{name}" kept as one item
Seed_TEMPLATES ==
    ("statement" :> <<"{subject}", " ", "{object}", " ", "{verb}", ".">>)
    @@ ("question" :> <<"{subject}", " ", "{object}", " ", "{verb}", "na", "+aa", "?">>)
    @@ ("yesno_question" :> <<"{verb}", " ", "{subject}", " ", "{object}", "?">>)
    @@ ("neg_statement" :> <<"{subject}", " ", "{object}", " ", "{verb_neg}", ".">>)
    @@ ("progressive" :> <<"{subject}", " ", "{object}", " ", "{aux_progressive}", " ", "{verb_participle}", ".">>)
    @@ ("perfect" :> <<"{subject}", " ", "{object}", " ", "{aux_perfect}", " ", "{verb_participle}", ".">>)
    @@ ("conditional" :> <<"{subclause}", ",", " ", "{mainclause}", ".">>)
    @@ ("relative" :> <<"{relclause}", " ", "{head}", " ", "{verb}", ".">>)
    @@ ("imperative" :> <<"{object}", " ", "{verb_imp}", "!">>)

\* SPOKEN_CONVERSIONS, its items in dict (insertion) order
Seed_SPOKEN_CONVERSIONS ==
    <<<<<<"va", "sa", "+", "ta", "+u", "na", "+", "na", "+aa", "na", "+u">>, <<"va", "sa", "+", "ta", "+u", "na", "+", "na", "+aa">>>>,
       <<<<"ca", "+ee", "sa", "+", "ta", "+u", "na", "+", "na", "+aa", "na", "+u">>, <<"ca", "+ee", "sa", "+", "ta", "+u", "na", "+", "na", "+aa">>>>,
       <<<<"pa", "+oo", "ta", "+u", "na", "+", "na", "+aa", "na", "+u">>, <<"pa", "+oo", "ta", "+u", "na", "+", "na", "+aa">>>>,
       <<<<"ca", "da", "+u", "va", "+u", "ta", "+aa", "na", "+u">>, <<"ca", "da", "+u", "va", "+u", "ta", "+aa">>>>,
       <<<<"pa", "+oo", "ta", "+aa", "na", "+u">>, <<"pa", "+oo", "ta", "+aa">>>>,
       <<<<"ca", "+ee", "sa", "+", "ta", "+aa", "na", "+u">>, <<"ca", "+ee", "sa", "+", "ta", "+aa">>>>>>

\* DIALECT_MAP: dialect name -> items in dict (insertion) order
Seed_DIALECT_MAP ==
    ("hyderabad" :> <<<<<<"pa", "+oo", "ta", "+aa", "na", "+u">>, <<"pa", "+oo", "ta", "na", "+", "na", "+aa">>>>, <<<<"pa", "+oo", "ta", "+aa", "va", "+u">>, <<"pa", "+oo", "ta", "va", "+", "va", "+aa">>>>>>)
    @@ ("telangana" :> <<<<<<"la", "+ee", "dda", "+u">>, <<"la", "+ee", "da", "+u", "ra", "+aa">>>>, <<<<"la", "+ee", "da", "+u">>, <<"la", "+ee", "da", "+oo", "ya", "+">>>>>>)
    @@ ("coastal" :> <<>>)
    @@ ("rayalaseema" :> <<>>)

\* Morphology.DEFAULT_SUFFIX: tense -> person/number key -> suffix
DEFAULT_SUFFIX ==
    ("present" :> (("1sg" :> <<"ta", "+aa", "na", "+u">>)
        @@ ("2sg" :> <<"ta", "+aa", "va", "+u">>)
        @@ ("3sg_m" :> <<"ta", "+aa", "dda", "+u">>)
        @@ ("3sg_f" :> <<"ta", "+u", "+m", "da", "+i">>)
        @@ ("1pl" :> <<"ta", "+aa", "ma", "+u">>)
        @@ ("2pl" :> <<"ta", "+aa", "ra", "+u">>)
        @@ ("3pl" :> <<"ta", "+aa", "ra", "+u">>)))
    @@ ("future" :> (("1sg" :> <<"ta", "+aa", "na", "+u">>)
        @@ ("2sg" :> <<"ta", "+aa", "va", "+u">>)
        @@ ("3sg_m" :> <<"ta", "+aa", "dda", "+u">>)
        @@ ("3sg_f" :> <<"ta", "+u", "+m", "da", "+i">>)
        @@ ("1pl" :> <<"ta", "+aa", "ma", "+u">>)
        @@ ("2pl" :> <<"ta", "+aa", "ra", "+u">>)
        @@ ("3pl" :> <<"ta", "+aa", "ra", "+u">>)))
    @@ ("past" :> (("1sg" :> <<"ya", "+aa", "na", "+u">>)
        @@ ("2sg" :> <<"ya", "+aa", "va", "+u">>)
        @@ ("3sg_m" :> <<"ya", "+aa", "dda", "+u">>)
        @@ ("3sg_f" :> <<"ya", "+i", "+m", "da", "+i">>)
        @@ ("1pl" :> <<"ya", "+aa", "ma", "+u">>)
        @@ ("2pl" :> <<"ya", "+aa", "ra", "+u">>)
        @@ ("3pl" :> <<"ya", "+aa", "ra", "+u">>)))

\* Morphology.NEGATION_PARTICLE: tense -> particle
NEGATION_PARTICLE ==
    ("present" :> <<"la", "+ee", "da", "+u">>)
    @@ ("past" :> <<"la", "+ee", "da", "+u">>)
    @@ ("future" :> <<"ka", "+aa", "da", "+u">>)

\* Morphology.AUX_PROGRESSIVE: subject -> auxiliary
AUX_PROGRESSIVE ==
    (<<"na", "+ee", "na", "+u">> :> <<"U", "na", "+", "na", "+aa", "na", "+u">>)
    @@ (<<"na", "+u", "va", "+", "va", "+u">> :> <<"U", "na", "+", "na", "+aa", "va", "+u">>)
    @@ (<<"na", "+ii", "va", "+u">> :> <<"U", "na", "+", "na", "+aa", "va", "+u">>)
    @@ (<<"A", "ta", "na", "+u">> :> <<"U", "na", "+", "na", "+aa", "dda", "+u">>)
    @@ (<<"AA", "ma", "+e">> :> <<"U", "+m", "da", "+i">>)
    @@ (<<"AA", "ya", "na">> :> <<"U", "na", "+", "na", "+aa", "ra", "+u">>)
    @@ (<<"AA", "va", "+i", "dda">> :> <<"U", "na", "+", "na", "+aa", "ra", "+u">>)
    @@ (<<"ma", "+ee", "ma", "+u">> :> <<"U", "na", "+", "na", "+aa", "ma", "+u">>)
    @@ (<<"ma", "+ii", "ra", "+u">> :> <<"U", "na", "+", "na", "+aa", "ra", "+u">>)
    @@ (<<"va", "+aa", "ra", "+u">> :> <<"U", "na", "+", "na", "+aa", "ra", "+u">>)

\* Morphology.AUX_PERFECT: subject -> auxiliary
AUX_PERFECT ==
    (<<"na", "+ee", "na", "+u">> :> <<"U", "na", "+", "na", "+aa", "na", "+u">>)
    @@ (<<"na", "+u", "va", "+", "va", "+u">> :> <<"U", "na", "+", "na", "+aa", "va", "+u">>)
    @@ (<<"na", "+ii", "va", "+u">> :> <<"U", "na", "+", "na", "+aa", "va", "+u">>)
    @@ (<<"A", "ta", "na", "+u">> :> <<"U", "na", "+", "na", "+aa", "dda", "+u">>)
    @@ (<<"AA", "ma", "+e">> :> <<"U", "+m", "da", "+i">>)
    @@ (<<"AA", "ya", "na">> :> <<"U", "na", "+", "na", "+aa", "ra", "+u">>)
    @@ (<<"AA", "va", "+i", "dda">> :> <<"U", "na", "+", "na", "+aa", "ra", "+u">>)
    @@ (<<"ma", "+ee", "ma", "+u">> :> <<"U", "na", "+", "na", "+aa", "ma", "+u">>)
    @@ (<<"ma", "+ii", "ra", "+u">> :> <<"U", "na", "+", "na", "+aa", "ra", "+u">>)
    @@ (<<"va", "+aa", "ra", "+u">> :> <<"U", "na", "+", "na", "+aa", "ra", "+u">>)

\* Sandhi.VOWELS: the tuple that str.split() makes of the vowel literal (two items)
VOWELS ==
    {<<"A", "AA", "I", "II", "U", "UU", "VOCALICR", "VOCALICRR", "E", "EE", "AI", "O", "OO", "AU", "A", "+m">>, <<"A", "+h">>}

\* ------------------------------------------------------ Python built-ins
\* None, a value that is no str
None == <<"<None>">>

\* None where a table holds it in the place of a mapping (a json null that
\* load_json stored): written with a string key, as the mappings are
Null == [null |-> TRUE]

\* the truth value Python gives a str or None: "not x"
Falsy(x) == x = None \/ x = <<>>

\* x or y
Or(x, y) == IF Falsy(x) THEN y ELSE x

\* dict.get(k, default)
Get(d, k, default) == IF k \in DOMAIN d THEN d[k] ELSE default

\* s[n:]
From(s, n) == SubSeq(s, n + 1, Len(s))

\* s[:n]
Prefix(s, n) == SubSeq(s, 1, IF n < Len(s) THEN n ELSE Len(s))

\* s[:-1]
DropLast(s) == SubSeq(s, 1, Len(s) - 1)

\* str.startswith
startswith(s, p) == Len(p) <= Len(s) /\ SubSeq(s, 1, Len(p)) = p

\* str.endswith
endswith(s, p) == Len(p) <= Len(s) /\ SubSeq(s, Len(s) - Len(p) + 1, Len(s)) = p

\* p in s, for str
RECURSIVE contains(_, _)
contains(s, p) ==
    IF Len(s) < Len(p) THEN FALSE
    ELSE startswith(s, p) \/ contains(Tail(s), p)

\* str.replace(k, v): the occurrences of k, found left to right and not
\* overlapping, become v; an empty k matches before every code point and at the end
RECURSIVE replace(_, _, _)
replace(s, k, v) ==
    IF k = <<>> THEN
        IF s = <<>> THEN v ELSE v \o <<Head(s)>> \o replace(Tail(s), k, v)
    ELSE IF Len(s) < Len(k) THEN s
    ELSE IF startswith(s, k) THEN v \o replace(From(s, Len(k)), k, v)
    ELSE <<Head(s)>> \o replace(Tail(s), k, v)

\* the characters \s matches, of those a text of the model can hold
Whitespace == {" "}

\* str.strip()
RECURSIVE lstrip(_)
lstrip(s) == IF s # <<>> /\ Head(s) \in Whitespace THEN lstrip(Tail(s)) ELSE s

RECURSIVE rstrip(_)
rstrip(s) == IF s # <<>> /\ s[Len(s)] \in Whitespace THEN rstrip(DropLast(s)) ELSE s

strip(s) == rstrip(lstrip(s))

\* str.split(" "): the pieces between single spaces, empty pieces included
RECURSIVE split(_, _)
split(s, cur) ==
    IF s = <<>> THEN <<cur>>
    ELSE IF Head(s) = " " THEN <<cur>> \o split(Tail(s), <<>>)
    ELSE split(Tail(s), Append(cur, Head(s)))

\* [t for t in xs if t]
RECURSIVE nonempty(_)
nonempty(xs) ==
    IF xs = <<>> THEN <<>>
    ELSE IF Head(xs) = <<>> THEN nonempty(Tail(xs))
    ELSE <<Head(xs)>> \o nonempty(Tail(xs))

\* re.sub(r"\s+", " ", text)
RECURSIVE collapse(_)
collapse(s) ==
    IF s = <<>> THEN <<>>
    ELSE IF Head(s) \in Whitespace THEN <<" ">> \o collapse(lstrip(s))
    ELSE <<Head(s)>> \o collapse(Tail(s))

\* re.sub(r"\s+([.?!,])", r"\1", text)
RECURSIVE unspace(_)
unspace(s) ==
    IF s = <<>> THEN <<>>
    ELSE IF Head(s) \in Whitespace THEN
        LET rest == lstrip(s)
            run == SubSeq(s, 1, Len(s) - Len(rest))
        IN  IF rest # <<>> /\ Head(rest) \in {".", "?", "!", ","}
            THEN <<Head(rest)>> \o unspace(Tail(rest))
            ELSE run \o unspace(rest)
    ELSE <<Head(s)>> \o unspace(Tail(s))

\* ------------------------------------------------------------ Morphology
\* the stem without one trailing "+u": stem[:-1] if stem.endswith("+u") else stem
StemBase(stem) == IF endswith(stem, <<"+u">>) THEN DropLast(stem) ELSE stem

\* Morphology.pron_key: subject -> <<person, number, gender bucket>>
pron_key(subject) ==
    LET p == Get(PRONOUNS, subject, ("person" :> "3") @@ ("num" :> "sg"))
        person == Get(p, "person", "3")
        num == Get(p, "num", "sg")
        gender == IF person = "3" /\ num = "sg" THEN Get(p, "gender", "m")
                  ELSE IF num = "pl" THEN "pl" ELSE "na"
    IN  <<person, num, gender>>

\* the key into DEFAULT_SUFFIX that conjugate builds from pron_key
SuffixKey(subject) ==
    LET k == pron_key(subject)
    IN  IF k[1] = "3" /\ k[2] = "sg"
        THEN (IF k[3] = "f" THEN "3sg_f" ELSE "3sg_m")
        ELSE k[1] \o k[2]

\* the finite form conjugate synthesizes when it takes no override
Synthesize(stem, tense, subject) ==
    LET suf == Get(Get(DEFAULT_SUFFIX, tense, <<>>), SuffixKey(subject), None)
    IN  IF ~Falsy(suf) THEN StemBase(stem) \o suf ELSE stem

\* the override conjugate looks up: VERB_OVERRIDES.get(stem, {}).get(tense, {}).get(subj)
Override(stem, tense, subject) ==
    Get(Get(Get(VERB_OVERRIDES, stem, <<>>), tense, <<>>), subject, None)

\* whether conjugate takes the override it looked up
TakesOverride(base) == ~Falsy(base)

\* the finite form of conjugate: the override first, else the synthesis
FiniteForm(stem, tense, subject) ==
    LET base == Override(stem, tense, subject)
    IN  IF TakesOverride(base) THEN base ELSE Synthesize(stem, tense, subject)

\* the stems conjugate negates with a person suffix
NegSuffixStems == {<<"ca", "+ee", "ya", "+u">>, <<"va", "+e", "lla", "+", "lla", "+u">>, <<"pa", "+oo">>}

\* the negated form, were every stem negated with the particle
NegForm_particle_for_every_stem(stem, base, subject, polarity) ==
    IF polarity # "negative" THEN base
    ELSE base \o <<" ", "ka", "+aa", "da", "+u">>

\* the negated form of conjugate
NegForm(stem, base, subject, polarity) ==
    IF polarity # "negative" THEN base
    ELSE IF stem \in NegSuffixStems THEN
        IF subject = <<"na", "+ee", "na", "+u">> THEN StemBase(stem) \o <<"na", "+u">>
        ELSE IF subject \in {<<"na", "+ii", "va", "+u">>, <<"na", "+u", "va", "+", "va", "+u">>}
             THEN StemBase(stem) \o <<"va", "+u">>
        ELSE StemBase(stem) \o <<"ra", "+u">>
    ELSE base \o <<" ", "ka", "+aa", "da", "+u">>

\* the participle of conjugate
Participle(stem, aspect) ==
    IF aspect \in {"progressive", "imperfective"}
    THEN StemBase(stem) \o <<"+u", "ta", "+uu">>
    ELSE StemBase(stem) \o <<"+i", "na">>

\* the imperative local of conjugate, None when the subject is no second person
Imperative(stem, subject) ==
    IF subject \in {<<"na", "+ii", "va", "+u">>, <<"na", "+u", "va", "+", "va", "+u">>}
    THEN stem \o (IF ~endswith(stem, <<"+u">>) THEN <<"+u">> ELSE <<>>)
    ELSE IF subject = <<"ma", "+ii", "ra", "+u">> THEN StemBase(stem) \o <<"+m", "dda", "+i">>
    ELSE None

\* Morphology.conjugate
conjugate(stem, tense, subject, aspect, polarity) ==
    LET base == FiniteForm(stem, tense, subject)
    IN  [form |-> base,
         neg |-> NegForm(stem, base, subject, polarity),
         participle |-> Participle(stem, aspect),
         progressive_aux |-> Get(AUX_PROGRESSIVE, subject, <<"U", "+m", "da", "+i">>),
         perfect_aux |-> Get(AUX_PERFECT, subject, <<"U", "+m", "da", "+i">>),
         imperative |-> Or(Imperative(stem, subject), base)]

\* the case names decline normalises, full and short
CaseMapping ==
    ("nominative" :> "nom") @@ ("accusative" :> "acc") @@ ("dative" :> "dat")
    @@ ("genitive" :> "gen") @@ ("locative" :> "loc") @@ ("instrumental" :> "ins")
    @@ ("nom" :> "nom") @@ ("acc" :> "acc") @@ ("dat" :> "dat")
    @@ ("gen" :> "gen") @@ ("loc" :> "loc") @@ ("ins" :> "ins")

\* the key decline looks a singular case up by: mapping.get(case, case)
CaseKey(case) == Get(CaseMapping, case, case)

\* Morphology.decline
decline(noun, case, plural) ==
    IF Falsy(noun) THEN <<>>
    ELSE LET info == Get(NOUNS, noun, <<>>)
         IN  IF info = Null \/ DOMAIN info = {} THEN noun
             ELSE IF plural THEN
                 LET head == Get(info, "pl", noun)
                 IN  IF case = "acc" THEN head \o <<"na", "+u">>
                     ELSE IF case = "dat" THEN head \o <<"ka", "+u">>
                     ELSE IF case = "gen" THEN head \o <<" ", "ya", "+o", "ka", "+", "ka">>
                     ELSE IF case = "loc" THEN head \o <<"la", "+oo">>
                     ELSE IF case = "ins" THEN head \o <<"ta", "+oo">>
                     ELSE head
             ELSE Get(info, CaseKey(case), noun)

\* ---------------------------------------------------------------- Sandhi
\* whether join elides: left ends in "+aa" and right starts with an item of VOWELS
Elides(left, right) ==
    endswith(left, <<"+aa">>) /\ \E v \in VOWELS : startswith(right, v)

\* Sandhi.join
join(left, right) ==
    IF Elides(left, right) THEN DropLast(left) \o right
    ELSE IF endswith(left, <<"+m">>) /\ Prefix(right, 1) \in {<<"pa">>, <<"ba">>, <<"ma">>}
         THEN left \o right
    ELSE left \o <<" ">> \o right

\* the loop of apply_sequence: out[-1] = join(out[-1], w) for each further word
RECURSIVE fold_join(_, _)
fold_join(acc, words) ==
    IF words = <<>> THEN acc ELSE fold_join(join(acc, Head(words)), Tail(words))

\* Sandhi.apply_sequence
apply_sequence(words) ==
    IF words = <<>> THEN <<>> ELSE fold_join(Head(words), Tail(words))

\* ---------------------------------------------------------------- Syntax
\* the replacement fields a format string of TEMPLATES may hold
Fields ==
    {"{subject}", "{object}", "{verb}", "{verb_neg}", "{aux_progressive}", "{aux_perfect}",
     "{verb_participle}", "{subclause}", "{mainclause}", "{relclause}", "{head}", "{verb_imp}"}

\* whether str.format finds every field of fmt among the keyword arguments
Formattable(fmt, kwargs) ==
    \A i \in 1..Len(fmt) : fmt[i] \in Fields => fmt[i] \in DOMAIN kwargs

\* fmt.format(**{k: (v or "").strip() ...})
RECURSIVE format(_, _)
format(fmt, kwargs) ==
    IF fmt = <<>> THEN <<>>
    ELSE (IF Head(fmt) \in Fields THEN strip(Or(kwargs[Head(fmt)], <<>>)) ELSE <<Head(fmt)>>)
         \o format(Tail(fmt), kwargs)

\* Syntax.apply: [err, val], err the exception raised, if any
Syntax_apply(template, kwargs) ==
    LET fmt == Get(TEMPLATES, template, None)
    IN  IF Falsy(fmt) THEN [err |-> "ValueError", val |-> <<>>]
        ELSE IF ~Formattable(fmt, kwargs) THEN [err |-> "KeyError", val |-> <<>>]
        ELSE [err |-> "", val |-> unspace(strip(collapse(format(fmt, kwargs))))]

\* ------------------------------------------- Semantics, Pragmatics, Style
\* Semantics.honorific
honorific(pronoun, level) ==
    Get(Get(HONORIFICS, level, HONORIFICS["informal"]), pronoun, pronoun)

\* for k, v in items: text = text.replace(k, v)
RECURSIVE replace_all(_, _)
replace_all(text, items) ==
    IF items = <<>> THEN text
    ELSE replace_all(replace(text, Head(items)[1], Head(items)[2]), Tail(items))

\* Pragmatics.dialect
dialect(text, name) == replace_all(text, Get(DIALECT_MAP, name, <<>>))

\* Style.apply
Style_apply(text, style) ==
    IF style = "spoken" THEN replace_all(text, SPOKEN_CONVERSIONS) ELSE text

\* ------------------------------------------------------------- Validator
\* the code points outside U+0C00..U+0C7F that a text of the model can hold
NonTelugu == {" ", ".", "?", "!", ",", ";", "{", "}", "o", "b", "j", "danda"}

\* Validator.check: ^[Telugu\s,;]+[.?!]$ on the stripped sentence
Validator_check(sentence) ==
    LET s == strip(sentence)
    IN  /\ Len(s) >= 2
        /\ s[Len(s)] \in {".", "?", "!"}
        /\ \A i \in 1..(Len(s) - 1) : s[i] \notin NonTelugu \/ s[i] \in Whitespace \cup {",", ";"}

\* Validator.subj_verb_agree
subj_verb_agree(subject, verb) ==
    IF subject \in {<<"ma", "+ii", "ra", "+u">>, <<"va", "+aa", "ra", "+u">>, <<"AA", "ya", "na">>, <<"AA", "va", "+i", "dda">>}
    THEN \/ endswith(verb, <<"ra", "+u">>)
         \/ endswith(verb, <<"ra", "+u", ".">>)
         \/ contains(verb, <<"U", "na", "+", "na", "+aa", "ra", "+u">>)
    ELSE IF subject = <<"na", "+ee", "na", "+u">>
    THEN endswith(verb, <<"na", "+u">>) \/ endswith(verb, <<"na", "+u", ".">>)
    ELSE TRUE

\* ------------------------------------------------------ TeluguRuleEngine
\* Branch, had the final else handed the caller's template name to Syntax.apply
Branch_name_passed_on(template, aspect, polarity) ==
    IF template = "statement" THEN "statement"
    ELSE IF template = "question" THEN "yesno_question"
    ELSE IF template = "negation" \/ (polarity = "negative" /\ template = "statement") THEN "neg_statement"
    ELSE IF template = "progressive" \/ aspect = "progressive" THEN "progressive"
    ELSE IF template = "perfect" \/ aspect = "perfect" THEN "perfect"
    ELSE IF template = "conditional" THEN "conditional"
    ELSE IF template = "relative" THEN "relative"
    ELSE IF template = "imperative" THEN "imperative"
    ELSE template

\* step 4 of generate, the if/elif chain: the template name handed to Syntax.apply
Branch(template, aspect, polarity) ==
    IF template = "statement" THEN "statement"
    ELSE IF template = "question" THEN "yesno_question"
    ELSE IF template = "negation" \/ (polarity = "negative" /\ template = "statement") THEN "neg_statement"
    ELSE IF template = "progressive" \/ aspect = "progressive" THEN "progressive"
    ELSE IF template = "perfect" \/ aspect = "perfect" THEN "perfect"
    ELSE IF template = "conditional" THEN "conditional"
    ELSE IF template = "relative" THEN "relative"
    ELSE IF template = "imperative" THEN "imperative"
    ELSE "statement"

\* step 4 of generate: the keyword arguments each branch hands to Syntax.apply
Slots(branch, a, subj, obj, forms) ==
    CASE branch = "yesno_question" ->
            ("{subject}" :> subj) @@ ("{object}" :> obj) @@ ("{verb}" :> forms.form)
      [] branch = "neg_statement" ->
            ("{subject}" :> subj) @@ ("{object}" :> obj) @@ ("{verb_neg}" :> forms.neg)
      [] branch = "progressive" ->
            ("{subject}" :> subj) @@ ("{object}" :> obj)
            @@ ("{aux_progressive}" :> forms.progressive_aux) @@ ("{verb_participle}" :> forms.participle)
      [] branch = "perfect" ->
            ("{subject}" :> subj) @@ ("{object}" :> obj)
            @@ ("{aux_perfect}" :> forms.perfect_aux) @@ ("{verb_participle}" :> forms.participle)
      [] branch = "conditional" ->
            ("{subclause}" :> Or(a.subclause, subj \o <<" ">> \o obj \o <<" ">> \o forms.form \o <<"ya", "+i", "ta", "+ee">>))
            @@ ("{mainclause}" :> Or(a.mainclause, subj \o <<" ">> \o forms.form))
      [] branch = "relative" ->
            ("{relclause}" :> Or(a.relclause, <<"{", "o", "b", "j", "}", " ", "ca", "da", "+i", "va", "+i", "na">>))
            @@ ("{head}" :> Or(a.head, <<"A", "ba", "+", "ba", "+aa", "ya", "+i">>))
            @@ ("{verb}" :> forms.form)
      [] branch = "imperative" ->
            ("{object}" :> obj) @@ ("{verb_imp}" :> forms.imperative)
      \* the first branch and the final else
      [] OTHER ->
            ("{subject}" :> subj) @@ ("{object}" :> obj) @@ ("{verb}" :> forms.form)

\* Punctuate, had it put the mark of the requested template in place of the one the sentence ends in
Punctuate_mark_replaced(sent, template) ==
    LET body == IF \E p \in {<<".">>, <<"!">>, <<"?">>, <<"danda">>} : endswith(sent, p)
                THEN DropLast(sent) ELSE sent
    IN  IF template = "question" THEN body \o <<"?">>
        ELSE IF template = "imperative" THEN body \o <<"!">>
        ELSE body \o <<".">>

\* step 7 of generate: the final punctuation enforcement
Punctuate(sent, template) ==
    IF \E p \in {<<".">>, <<"!">>, <<"?">>, <<"danda">>} : endswith(sent, p) THEN sent
    ELSE IF template = "question" THEN sent \o <<"?">>
    ELSE IF template = "imperative" THEN sent \o <<"!">>
    ELSE sent \o <<".">>

\* step 6 of generate, had the dialect pass run before the style pass
StyleThenDialect_swapped(sent, style, name) ==
    LET d == dialect(sent, name)
        s == Style_apply(d, style)
    IN  [styled |-> s, dialected |-> d, out |-> s]

\* step 6 of generate: the style pass, then the dialect pass on its output
StyleThenDialect(sent, style, name) ==
    LET s == Style_apply(sent, style)
        d == dialect(s, name)
    IN  [styled |-> s, dialected |-> d, out |-> d]

\* Forms, had generate conjugated for the subject of its caller
Forms_caller_subject(a, subj) == conjugate(a.verb, a.tense, a.subject, a.aspect, a.polarity)

\* step 2 of generate: the verb forms, conjugated for the subject it is handed
Forms(a, subj) == conjugate(a.verb, a.tense, subj, a.aspect, a.polarity)

\* TeluguRuleEngine.generate: every local of the call; sent is the return value,
\* err the exception that ends the call in step 4, warnings what step 8 prints
generate(a) ==
    LET subj_formal == honorific(a.subject, a.formality)
        conj_subject == subj_formal
        forms == Forms(a, conj_subject)
        obj == IF ~Falsy(a.noun) THEN decline(a.noun, a.case, a.plural_object) ELSE <<>>
        branch == Branch(a.template, a.aspect, a.polarity)
        kwargs == Slots(branch, a, subj_formal, obj, forms)
        applied == Syntax_apply(branch, kwargs)
        rendered == applied.val
        tokens == nonempty(split(rendered, <<>>))
        joined == apply_sequence(tokens)
        passes == StyleThenDialect(joined, a.style, a.dialect)
        styled == passes.styled
        dialected == passes.dialected
        sent == Punctuate(passes.out, a.template)
        agree_subject == subj_formal
    IN  IF applied.err # ""
        THEN [err |-> applied.err, subj_formal |-> subj_formal, conj_subject |-> conj_subject,
              forms |-> forms, obj |-> obj, branch |-> branch, kwargs |-> kwargs,
              rendered |-> <<>>, joined |-> <<>>, styled |-> <<>>, dialected |-> <<>>,
              sent |-> <<>>, agree_subject |-> <<>>, warnings |-> {}]
        ELSE [err |-> "", subj_formal |-> subj_formal, conj_subject |-> conj_subject,
              forms |-> forms, obj |-> obj, branch |-> branch, kwargs |-> kwargs,
              rendered |-> rendered, joined |-> joined, styled |-> styled, dialected |-> dialected,
              sent |-> sent, agree_subject |-> agree_subject,
              warnings |-> (IF ~Validator_check(sent) THEN {"pattern"} ELSE {})
                           \cup (IF ~subj_verb_agree(agree_subject, sent) THEN {"agreement"} ELSE {})]

\* load_json, the verbs loop: for k, v in data.items(): VERB_OVERRIDES.setdefault(k, {}).update(v)
\* setdefault leaves the entry it found or the {} it put there, update(None) raises
\* TypeError, and the items before the one that raised stay merged
RECURSIVE merge_verbs(_, _)
merge_verbs(table, items) ==
    IF items = <<>> THEN [table |-> table, err |-> ""]
    ELSE LET k == Head(items)[1]
             v == Head(items)[2]
             entry == Get(table, k, <<>>)
         IN  IF v = Null THEN [table |-> (k :> entry) @@ table, err |-> "TypeError"]
             ELSE merge_verbs((k :> (v @@ entry)) @@ table, Tail(items))

\* load_json, the nouns loop: for k, v in data.items(): NOUNS[k] = v
\* (whatever v is: nothing here raises)
RECURSIVE merge_nouns(_, _)
merge_nouns(table, items) ==
    IF items = <<>> THEN table
    ELSE merge_nouns((Head(items)[1] :> Head(items)[2]) @@ table, Tail(items))

\* ------------------------------------------------------------ the inputs
\* the JSON files a client may load, by path: what json.load returns for each,
\* a dict written as its items in order
FILES ==
    \* an override that is the empty string, for a stem and tense the table has
    ("verbs_empty.json" :>
        << <<<<"pa", "+oo">>, ("present" :> (<<"na", "+ee", "na", "+u">> :> <<>>))>> >>)
    \* a new stem
    @@ ("verbs_new.json" :>
        << <<<<"ra", "+aa">>, ("present" :> (<<"na", "+ee", "na", "+u">> :> <<"va", "sa", "+", "ta", "+aa", "na", "+u">>))>> >>)
    \* one form of a stem the table has, and a further tense of the new stem
    @@ ("verbs_update.json" :>
        << <<<<"ca", "+ee", "ya", "+u">>, ("past" :> (<<"na", "+ee", "na", "+u">> :> <<"ca", "+ee", "sa", "+aa", "na", "+u">>))>>,
           <<<<"ra", "+aa">>, ("past" :> (<<"na", "+ee", "na", "+u">> :> <<"va", "ca", "+", "ca", "+aa", "na", "+u">>))>> >>)
    \* one case of a noun the table has
    @@ ("nouns_update.json" :>
        << <<<<"pa", "+u", "sa", "+", "ta", "ka", "+m">>, ("acc" :> <<"pa", "+u", "sa", "+", "ta", "ka", "ma", "+u", "na", "+u">>)>> >>)
    \* a new noun
    @@ ("nouns_new.json" :>
        << <<<<"I", "la", "+", "la", "+u">>,
             ("nom" :> <<"I", "la", "+", "la", "+u">>) @@ ("acc" :> <<"I", "+m", "tta", "+i", "na", "+i">>)
             @@ ("pl" :> <<"I", "lla", "+", "lla", "+u">>)>> >>)
    \* a well-formed record of a stem the table has, then a stem whose value is null
    @@ ("verbs_malformed.json" :>
        << <<<<"pa", "+oo">>, ("present" :> (<<"na", "+ee", "na", "+u">> :> <<>>))>>,
           <<<<"ra", "+aa">>, Null>> >>)
    \* a noun the table has, with the value null
    @@ ("nouns_malformed.json" :>
        << <<<<"pa", "+u", "sa", "+", "ta", "ka", "+m">>, Null>> >>)

\* the paths of the files that are not JSON text
Unparsable == {"verbs_unparsable.json", "nouns_unparsable.json"}

\* json.load(f) of the file at path: the items of the dict, or JSONDecodeError
json_load(path) ==
    IF path \in Unparsable THEN [err |-> "JSONDecodeError", data |-> <<>>]
    ELSE [err |-> "", data |-> FILES[path]]

\* "" stands for a path that is not given (None)
VerbPaths ==
    {"", "verbs_empty.json", "verbs_new.json", "verbs_update.json", "verbs_malformed.json",
     "verbs_unparsable.json"}
NounPaths == {"", "nouns_update.json", "nouns_new.json", "nouns_malformed.json", "nouns_unparsable.json"}

Stems ==
    {<<"pa", "+oo">>, <<"ca", "+ee", "ya", "+u">>, <<"va", "+e", "lla", "+", "lla", "+u">>,
     <<"ra", "+aa">>, <<"ta", "+i", "na", "+u">>}
Tenses == {"present", "past", "aorist"}
Subjects ==
    {<<"na", "+ee", "na", "+u">>, <<"na", "+ii", "va", "+u">>, <<"ma", "+ii", "ra", "+u">>,
     <<"AA", "ma", "+e">>, <<"ra", "+aa", "ma", "+u">>}
Aspects == {"simple", "progressive", "perfect"}
Polarities == {"positive", "negative"}

\* the subjects and polarities of a direct call of conjugate: both second person
\* singular pronouns, a first person plural, and a polarity conjugate does not know
ConjugateSubjects == Subjects \cup {<<"na", "+u", "va", "+", "va", "+u">>, <<"ma", "+ee", "ma", "+u">>}
ConjugatePolarities == Polarities \cup {"emphatic"}
NounArgs ==
    {<<>>, <<"pa", "+u", "sa", "+", "ta", "ka", "+m">>, <<"I", "la", "+", "la", "+u">>, <<"ka", "la", "+m">>}
CaseArgs ==
    {"nominative", "accusative", "dative", "genitive", "locative", "instrumental",
     "nom", "acc", "dat", "gen", "loc", "ins", "pl", "vocative"}
Formalities == {"informal", "formal", "royal"}
DialectNames == {"standard", "hyderabad", "telangana", "coastal"}
Styles == {"formal", "spoken"}
TemplateArgs ==
    {"statement", "question", "negation", "progressive", "perfect", "conditional",
     "relative", "imperative", "yesno_question", "nonexistent"}

\* the texts of at most n code points over the code points the rules of join look at
JoinAlphabet == {"+aa", "+m", "A", "+h", "pa"}
RECURSIVE Texts(_)
Texts(n) ==
    IF n = 0 THEN {<<>>}
    ELSE LET shorter == Texts(n - 1)
         IN  shorter \cup {Append(t, c) : t \in shorter, c \in JoinAlphabet}

\* the texts of at most n words, one space between two words
Words ==
    {<<"pa", "+oo", "ta", "+aa", "na", "+u">>, <<"pa", "+oo", "ta", "+aa", "va", "+u">>,
     <<"pa", "+oo", "ta", "+u", "na", "+", "na", "+aa", "na", "+u">>,
     <<"ca", "+ee", "sa", "+", "ta", "+aa", "na", "+u">>,
     <<"la", "+ee", "dda", "+u">>, <<"la", "+ee", "da", "+u">>}
RECURSIVE Sentences(_)
Sentences(n) ==
    IF n = 0 THEN {<<>>}
    ELSE LET shorter == Sentences(n - 1)
         IN  shorter \cup {(IF t = <<>> THEN w ELSE t \o <<" ">> \o w) : t \in shorter, w \in Words}

\* the word lists handed to apply_sequence
WordLists ==
    LET ws == {<<"ra", "+aa">>, <<"A", "+h">>, <<"pa", "+u", "sa", "+", "ta", "ka", "+m">>, <<"pa", "+oo">>}
    IN  {<<>>} \cup {<<w>> : w \in ws} \cup {<<v, w>> : v \in ws, w \in ws}
        \cup {<<u, v, w>> : u \in ws, v \in ws, w \in ws}

\* keyword arguments for a direct call of Syntax.apply
SlotArgs ==
    {[f \in Fields |-> <<" ", "pa", "+oo", " ">>],
     [f \in Fields |-> IF f = "{object}" THEN None ELSE <<"ra", "+aa", " ", " ", "A">>],
     ("{subject}" :> <<"na", "+ee", "na", "+u">>) @@ ("{verb}" :> <<"pa", "+oo">>)}

\* the arguments of generate: the defaults of its signature
GenDefaults ==
    [verb |-> <<"pa", "+oo">>, subject |-> <<"na", "+ee", "na", "+u">>, noun |-> None,
     tense |-> "present", aspect |-> "simple", polarity |-> "positive", case |-> "acc",
     plural_object |-> FALSE, formality |-> "informal", dialect |-> "standard",
     style |-> "formal", template |-> "statement",
     head |-> None, relclause |-> None, subclause |-> None, mainclause |-> None]

\* the calls of generate: template, aspect and polarity in every combination
GenByTemplate ==
    {[GenDefaults EXCEPT !.template = t, !.aspect = asp, !.polarity = pol,
                         !.subject = s, !.verb = v, !.noun = n] :
        t \in TemplateArgs, asp \in Aspects, pol \in Polarities,
        s \in {<<"na", "+ee", "na", "+u">>, <<"na", "+ii", "va", "+u">>, <<"ma", "+ii", "ra", "+u">>},
        v \in {<<"pa", "+oo">>, <<"ca", "+ee", "ya", "+u">>, <<"ra", "+aa">>},
        n \in {None, <<"pa", "+u", "sa", "+", "ta", "ka", "+m">>}}

\* the calls of generate: subject, formality, style and dialect in every combination
GenByRegister ==
    {[GenDefaults EXCEPT !.subject = s, !.formality = f, !.style = st, !.dialect = d,
                         !.verb = v, !.tense = tn, !.template = t] :
        s \in Subjects \ {<<"ma", "+ii", "ra", "+u">>}, f \in Formalities, st \in Styles,
        d \in {"standard", "hyderabad", "telangana"},
        v \in {<<"pa", "+oo">>, <<"ca", "+ee", "ya", "+u">>}, tn \in {"present", "past"},
        t \in {"statement", "question", "imperative"}}

\* the calls of generate: the clause arguments of the conditional and relative templates
GenByClause ==
    {[GenDefaults EXCEPT !.template = t, !.mainclause = m, !.subclause = sc, !.head = h,
                         !.relclause = rc, !.dialect = d, !.style = st, !.case = c,
                         !.plural_object = pl, !.noun = <<"pa", "+u", "sa", "+", "ta", "ka", "+m">>] :
        t \in {"conditional", "relative"},
        m \in {None, <<"la", "+ee", "dda", "+u">>, <<"ra", "+aa", "?">>,
               <<"pa", "+oo", "ta", "+aa", "na", "+u", "na", "+u">>},
        sc \in {None, <<"ra", "+aa">>}, h \in {None, <<"A", "ma", "+", "ma", "+aa", "ya", "+i">>},
        rc \in {None, <<"pa", "+oo">>}, d \in {"standard", "hyderabad", "telangana"},
        st \in Styles, c \in {"acc", "nom"}, pl \in BOOLEAN}

GenArgs == GenByTemplate \cup GenByRegister \cup GenByClause

\* ------------------------------------------------------- the state machine
\* the state after import and TeluguRuleEngine(): the embedded tables, no call made
Init ==
    /\ VERB_OVERRIDES = Seed_VERB_OVERRIDES
    /\ NOUNS = Seed_NOUNS
    /\ PRONOUNS = Seed_PRONOUNS
    /\ HONORIFICS = Seed_HONORIFICS
    /\ TEMPLATES = Seed_TEMPLATES
    /\ SPOKEN_CONVERSIONS = Seed_SPOKEN_CONVERSIONS
    /\ DIALECT_MAP = Seed_DIALECT_MAP
    /\ op = "idle"
    /\ args = <<>>
    /\ ret = <<>>
    /\ err = ""
    /\ trace = <<>>

\* a call, were conjugate to keep the finite form it found in the override table
Returns_conjugate_memoised(name, a, value, raised) ==
    /\ op = "idle"
    /\ op' = name
    /\ args' = a
    /\ ret' = value
    /\ err' = raised
    /\ trace' = <<>>
    /\ VERB_OVERRIDES' =
         IF name = "conjugate"
         THEN merge_verbs(VERB_OVERRIDES, << <<a.stem, (a.tense :> (a.subject :> value.form))>> >>).table
         ELSE VERB_OVERRIDES
    /\ UNCHANGED <<NOUNS, PRONOUNS, HONORIFICS, TEMPLATES, SPOKEN_CONVERSIONS, DIALECT_MAP>>

\* a call that only reads the tables: what it was, what it returned or raised
Returns(name, a, value, raised) ==
    /\ op = "idle"
    /\ op' = name
    /\ args' = a
    /\ ret' = value
    /\ err' = raised
    /\ trace' = <<>>
    /\ UNCHANGED tables

\* engine.load_json(verbs_path=vp, nouns_path=np): the verbs block, then the nouns
\* block unless the verbs block raised; what a block changed before it raised stays
LoadJson ==
    /\ op = "idle"
    /\ \E vp \in VerbPaths, np \in NounPaths :
           LET verbs_data == IF vp # "" THEN json_load(vp) ELSE [err |-> "", data |-> <<>>]
               verbs == IF verbs_data.err # "" THEN [table |-> VERB_OVERRIDES, err |-> verbs_data.err]
                        ELSE merge_verbs(VERB_OVERRIDES, verbs_data.data)
               nouns_data == IF verbs.err = "" /\ np # "" THEN json_load(np) ELSE [err |-> "", data |-> <<>>]
           IN
           /\ VERB_OVERRIDES' = verbs.table
           /\ NOUNS' = IF verbs.err = "" /\ nouns_data.err = "" THEN merge_nouns(NOUNS, nouns_data.data) ELSE NOUNS
           /\ op' = "load_json"
           /\ args' = [verbs_path |-> vp, nouns_path |-> np]
           /\ ret' = None
           /\ err' = IF verbs.err # "" THEN verbs.err ELSE nouns_data.err
           /\ trace' = <<>>
           /\ UNCHANGED <<PRONOUNS, HONORIFICS, TEMPLATES, SPOKEN_CONVERSIONS, DIALECT_MAP>>

\* Morphology.conjugate(stem, tense, subject, aspect=..., polarity=...)
Conjugate ==
    /\ op = "idle"
    /\ \E stem \in Stems, tense \in Tenses, subject \in ConjugateSubjects, aspect \in Aspects,
          polarity \in ConjugatePolarities :
           Returns("conjugate",
                   [stem |-> stem, tense |-> tense, subject |-> subject, aspect |-> aspect, polarity |-> polarity],
                   conjugate(stem, tense, subject, aspect, polarity), "")

\* Morphology.decline(noun, case, plural)
Decline ==
    /\ op = "idle"
    /\ \E noun \in NounArgs, case \in CaseArgs, plural \in BOOLEAN :
           Returns("decline", [noun |-> noun, case |-> case, plural |-> plural],
                   decline(noun, case, plural), "")

\* engine.generate(...)
Generate ==
    /\ op = "idle"
    /\ \E a \in GenArgs :
           LET t == generate(a)
           IN  /\ op' = "generate"
               /\ args' = a
               /\ ret' = t.sent
               /\ err' = t.err
               /\ trace' = t
               /\ UNCHANGED tables

\* Sandhi.join(left, right)
Join ==
    /\ op = "idle"
    /\ \E left \in Texts(MaxLen), right \in Texts(MaxLen) :
           Returns("join", [left |-> left, right |-> right], join(left, right), "")

\* Sandhi.apply_sequence(words)
ApplySequence ==
    /\ op = "idle"
    /\ \E words \in WordLists :
           Returns("apply_sequence", [words |-> words], apply_sequence(words), "")

\* Syntax.apply(template, **kwargs)
SyntaxApply ==
    /\ op = "idle"
    /\ \E template \in TemplateArgs \cup DOMAIN TEMPLATES, kwargs \in SlotArgs :
           LET r == Syntax_apply(template, kwargs)
           IN  Returns("Syntax.apply", [template |-> template, kwargs |-> kwargs], r.val, r.err)

\* Style.apply(text, style)
StyleApply ==
    /\ op = "idle"
    /\ \E text \in Sentences(MaxWords), style \in Styles :
           Returns("Style.apply", [text |-> text, style |-> style], Style_apply(text, style), "")

\* Pragmatics.dialect(text, name)
Dialect ==
    /\ op = "idle"
    /\ \E text \in Sentences(MaxWords), name \in DialectNames :
           Returns("dialect", [text |-> text, name |-> name], dialect(text, name), "")

\* the client takes the result and is ready for its next call
Done ==
    /\ op # "idle"
    /\ op' = "idle"
    /\ args' = <<>>
    /\ ret' = <<>>
    /\ err' = ""
    /\ trace' = <<>>
    /\ UNCHANGED tables

\* the engine under a client that loads extensions and calls the components and generate
Next == LoadJson \/ Conjugate \/ Decline \/ SyntaxApply \/ Generate \/ Done

Spec == Init /\ [][Next]_vars

\* the pure text components on the embedded tables
NextText == Join \/ ApplySequence \/ SyntaxApply \/ StyleApply \/ Dialect \/ Done

SpecText == Init /\ [][NextText]_vars


\* the engine under a client that calls every operation
NextAll == Next \/ NextText

SpecAll == Init /\ [][NextAll]_vars
\* ------------------------------------------------------------ properties
\* Telugu words the properties name
w_nenu == <<"na", "+ee", "na", "+u">>
w_potanu == <<"pa", "+oo", "ta", "+aa", "na", "+u">>
w_pota == <<"pa", "+oo", "ta", "+aa">>

\* whether VERB_OVERRIDES holds an entry for the triple
HasOverride(stem, tense, subject) ==
    /\ stem \in DOMAIN VERB_OVERRIDES
    /\ tense \in DOMAIN VERB_OVERRIDES[stem]
    /\ subject \in DOMAIN VERB_OVERRIDES[stem][tense]

\* C1: whenever the override table holds an entry for (stem, tense, subject),
\* also one a load_json merge put there, conjugate returns the stored string
\* as the finite form, for every aspect and polarity.
C1_OverrideIsReturned ==
    (op = "conjugate" /\ HasOverride(args.stem, args.tense, args.subject))
        => ret.form = VERB_OVERRIDES[args.stem][args.tense][args.subject]

\* the branch the first-match order of C2 selects
C2_Selected(template, aspect, polarity) ==
    IF template = "negation" \/ (polarity = "negative" /\ template = "statement") THEN "neg_statement"
    ELSE IF template = "progressive" \/ aspect = "progressive" THEN "progressive"
    ELSE IF template = "perfect" \/ aspect = "perfect" THEN "perfect"
    ELSE IF template = "question" THEN "yesno_question"
    ELSE IF template \in {"statement", "conditional", "relative", "imperative"} THEN template
    ELSE "statement"

\* C2: generate renders the template chosen by the first match of: negation
\* (or negative polarity on a statement), with the negated verb form; then
\* progressive (name or aspect); then perfect (name or aspect); and only then
\* the literal template name.
C2_BranchPrecedence ==
    op = "generate" =>
        /\ trace.branch = C2_Selected(args.template, args.aspect, args.polarity)
        /\ trace.branch = "neg_statement" => trace.kwargs["{verb_neg}"] = trace.forms.neg

\* C3 as stated: a template name that is no key of the template table raises
\* the unknown-template error, from Syntax.apply and from generate alike.
C3_UnknownTemplateRaises ==
    /\ (op = "Syntax.apply" /\ args.template \notin DOMAIN TEMPLATES) => err = "ValueError"
    /\ (op = "generate" /\ args.template \notin DOMAIN TEMPLATES) => err = "ValueError"

\* the template names the if/elif chain of generate tests for
C3_BranchNames ==
    {"statement", "question", "negation", "progressive", "perfect", "conditional", "relative", "imperative"}

\* C3, amended: Syntax.apply raises the unknown-template error for a name that
\* is no key of the template table and for no other; generate never raises it:
\* it hands Syntax.apply a key of the table, and for a name none of its
\* branches tests for that key is "statement", unless the aspect selects the
\* progressive or the perfect template, and a sentence is returned.
C3_GenerateFallsBack ==
    /\ op = "Syntax.apply" => (err = "ValueError" <=> args.template \notin DOMAIN TEMPLATES)
    /\ op = "generate" =>
        /\ err = ""
        /\ trace.branch \in DOMAIN TEMPLATES
        /\ args.template \notin C3_BranchNames =>
            /\ trace.branch = (IF args.aspect \in {"progressive", "perfect"} THEN args.aspect ELSE "statement")
            /\ ret # <<>>

\* C3, the case: generate was called with "nonexistent" and returned a statement
C3_Witness ==
    /\ op = "generate"
    /\ args.template = "nonexistent"
    /\ args.aspect = "simple"
    /\ err = ""
    /\ trace.branch = "statement"
    /\ ret = w_nenu \o <<" ">> \o w_potanu \o <<".">>

\* whether the record of a load_json call names the verb entry
NamesOverride(path, stem, tense, subject) ==
    /\ path \in DOMAIN FILES
    /\ \E i \in 1..Len(FILES[path]) :
        /\ FILES[path][i][1] = stem
        /\ tense \in DOMAIN FILES[path][i][2]
        /\ subject \in DOMAIN FILES[path][i][2][tense]

\* whether the record of a load_json call names the noun form
NamesCase(path, noun, case) ==
    /\ path \in DOMAIN FILES
    /\ \E i \in 1..Len(FILES[path]) :
        /\ FILES[path][i][1] = noun
        /\ case \in DOMAIN FILES[path][i][2]

\* C4: a load_json merge loses or changes no entry its record does not name:
\* every (stem, tense, subject) override and every (noun, case) form of before
\* the merge that the record does not name is there, unchanged, after it.
C4_MergeKeepsUnnamed ==
    [][op' = "load_json" =>
        /\ \A stem \in DOMAIN VERB_OVERRIDES : \A tense \in DOMAIN VERB_OVERRIDES[stem] :
             \A subject \in DOMAIN VERB_OVERRIDES[stem][tense] :
                ~NamesOverride(args'.verbs_path, stem, tense, subject) =>
                    /\ stem \in DOMAIN VERB_OVERRIDES'
                    /\ tense \in DOMAIN VERB_OVERRIDES'[stem]
                    /\ subject \in DOMAIN VERB_OVERRIDES'[stem][tense]
                    /\ VERB_OVERRIDES'[stem][tense][subject] = VERB_OVERRIDES[stem][tense][subject]
        /\ \A noun \in {n \in DOMAIN NOUNS : NOUNS[n] # Null} : \A case \in DOMAIN NOUNS[noun] :
                ~NamesCase(args'.nouns_path, noun, case) =>
                    /\ noun \in DOMAIN NOUNS'
                    /\ case \in DOMAIN NOUNS'[noun]
                    /\ NOUNS'[noun][case] = NOUNS[noun][case]
    ]_vars

\* the single vowel letters of the vowel literal of Sandhi
C5_VowelLetters ==
    {"A", "AA", "I", "II", "U", "UU", "VOCALICR", "VOCALICRR", "E", "EE", "AI", "O", "OO", "AU"}

\* C5: join applies the first matching rule of: left ends in "+aa" and right
\* begins with a vowel letter: left without its last sign, then right; left ends
\* in "+m" and right begins with pa, ba or ma: left, then right; else left,
\* one space, right.
C5_JoinRules ==
    op = "join" =>
        LET left == args.left
            right == args.right
        IN  ret = IF endswith(left, <<"+aa">>) /\ right # <<>> /\ Head(right) \in C5_VowelLetters
                      THEN DropLast(left) \o right
                  ELSE IF endswith(left, <<"+m">>) /\ right # <<>> /\ Head(right) \in {"pa", "ba", "ma"}
                      THEN left \o right
                  ELSE left \o <<" ">> \o right

\* C6: for plural = false, decline returns "" for an empty noun, the noun for
\* a noun the table lacks, the stored form of the case for a noun of the table
\* and one of the six case names, full or short, and the noun for any other case.
C6_DeclineSingular ==
    (op = "decline" /\ ~args.plural) =>
        IF args.noun = <<>> THEN ret = <<>>
        ELSE IF args.noun \notin DOMAIN NOUNS THEN ret = args.noun
        ELSE IF args.case \in DOMAIN CaseMapping
            THEN CaseMapping[args.case] \in DOMAIN NOUNS[args.noun]
                    => ret = NOUNS[args.noun][CaseMapping[args.case]]
        ELSE ret = args.noun

\* the terminal mark C7 gives a requested template
C7_Mark(template) ==
    IF template = "question" THEN "?" ELSE IF template = "imperative" THEN "!" ELSE "."

\* C7 as stated: a returned sentence ends with the mark of the requested
\* template, "?" for question, "!" for imperative and "." otherwise, whatever
\* the aspect, polarity, style and dialect.
C7_MarkOfRequestedTemplate ==
    (op = "generate" /\ err = "") => (ret # <<>> /\ ret[Len(ret)] = C7_Mark(args.template))

\* C7, amended: a returned sentence ends with the mark of the template that
\* was rendered: "?" for template question, "!" for template imperative when
\* the aspect is neither progressive nor perfect, "." in every other case, the
\* imperative with a progressive or perfect aspect among them; a sentence that
\* ends in a terminal mark after the dialect pass is returned as it is.
C7_MarkOfRenderedTemplate ==
    (op = "generate" /\ err = "") =>
        /\ ret # <<>>
        /\ ret[Len(ret)] =
              IF args.template = "question" THEN "?"
              ELSE IF args.template = "imperative" /\ args.aspect \notin {"progressive", "perfect"} THEN "!"
              ELSE "."
        /\ (trace.dialected # <<>> /\ trace.dialected[Len(trace.dialected)] \in {".", "!", "?", "danda"})
              => ret = trace.dialected

\* C7, the case: an imperative with the progressive aspect came back ending in "."
C7_Witness ==
    /\ op = "generate"
    /\ err = ""
    /\ args.template = "imperative"
    /\ args.aspect = "progressive"
    /\ trace.branch = "progressive"
    /\ ret[Len(ret)] = "."

\* the pronoun the honorific map of the level gives the subject
C8_Remapped(subject, level) ==
    LET m == IF level \in DOMAIN HONORIFICS THEN HONORIFICS[level] ELSE HONORIFICS["informal"]
    IN  IF subject \in DOMAIN m THEN m[subject] ELSE subject

\* C8: in generate the remapped subject, and never the subject of the caller,
\* is the key of the override and synthesis lookup and of the auxiliary
\* lookups, fills the subject slot of the template and the default clauses of
\* the conditional, and is what the agreement check is made for.
C8_RemappedSubjectDownstream ==
    (op = "generate" /\ err = "") =>
        LET e == C8_Remapped(args.subject, args.formality)
        IN  /\ trace.conj_subject = e
            /\ trace.forms.form = FiniteForm(args.verb, args.tense, e)
            /\ trace.forms.neg = NegForm(args.verb, trace.forms.form, e, args.polarity)
            /\ trace.forms.progressive_aux = Get(AUX_PROGRESSIVE, e, <<"U", "+m", "da", "+i">>)
            /\ trace.forms.perfect_aux = Get(AUX_PERFECT, e, <<"U", "+m", "da", "+i">>)
            /\ trace.forms.imperative = Or(Imperative(args.verb, e), trace.forms.form)
            /\ "{subject}" \in DOMAIN trace.kwargs => trace.kwargs["{subject}"] = e
            /\ (trace.branch = "conditional" /\ Falsy(args.mainclause))
                  => trace.kwargs["{mainclause}"] = e \o <<" ">> \o trace.forms.form
            /\ trace.agree_subject = e
            /\ ("agreement" \in trace.warnings) = ~subj_verb_agree(e, ret)

\* C8, the case: a formal call for the second person singular went out for "miiru"
C8_Witness ==
    /\ op = "generate"
    /\ err = ""
    /\ args.subject = <<"na", "+ii", "va", "+u">>
    /\ args.formality = "formal"
    /\ args.verb = <<"pa", "+oo">>
    /\ args.template = "statement"
    /\ trace.subj_formal = <<"ma", "+ii", "ra", "+u">>
    /\ ret = <<"ma", "+ii", "ra", "+u", " ", "pa", "+oo", "ta", "+aa", "ra", "+u", ".">>

\* whether every w in text is followed by a space, a mark or the end
C9_WholeWord(text, w) ==
    \A i \in 1..Len(text) :
        (i + Len(w) - 1 <= Len(text) /\ SubSeq(text, i, i + Len(w) - 1) = w)
            => (i + Len(w) > Len(text) \/ text[i + Len(w)] \in NonTelugu)

\* C9 as stated: the style pass runs on the joined sentence, the dialect pass
\* on its output: a sentence that holds "potanu", spoken and in the Hyderabad
\* dialect, comes back with "pota" and the Hyderabad replacement of "potanu"
\* finds nothing to replace; a style other than spoken and a dialect the table
\* lacks change nothing.
C9_StyleBeforeDialect ==
    (op = "generate" /\ err = "") =>
        /\ (contains(trace.joined, w_potanu) /\ args.style = "spoken" /\ args.dialect = "hyderabad")
              => (contains(ret, w_pota) /\ ~contains(trace.styled, w_potanu))
        /\ args.style # "spoken" => trace.styled = trace.joined
        /\ args.dialect \notin DOMAIN DIALECT_MAP => trace.dialected = trace.styled

\* C9, amended: as stated, for a sentence that holds "potanu" as a whole word
\* only: a space, a mark or the end comes after it.
C9_StyleBeforeDialectWholeWord ==
    (op = "generate" /\ err = "") =>
        /\ (/\ contains(trace.joined, w_potanu)
            /\ C9_WholeWord(trace.joined, w_potanu)
            /\ args.style = "spoken"
            /\ args.dialect = "hyderabad")
              => (contains(ret, w_pota) /\ ~contains(trace.styled, w_potanu))
        /\ args.style # "spoken" => trace.styled = trace.joined
        /\ args.dialect \notin DOMAIN DIALECT_MAP => trace.dialected = trace.styled

\* C9, the case: "nenu potanu." spoken in the Hyderabad dialect came back "nenu pota."
C9_Witness ==
    /\ op = "generate"
    /\ args.style = "spoken"
    /\ args.dialect = "hyderabad"
    /\ trace.joined = w_nenu \o <<" ">> \o w_potanu \o <<".">>
    /\ ret = w_nenu \o <<" ">> \o w_pota \o <<".">>

\* the orders the items of a table can be applied in
RECURSIVE C10_Orders(_)
C10_Orders(items) ==
    IF items = <<>> THEN {<<>>}
    ELSE UNION {{<<items[i]>> \o rest :
                    rest \in C10_Orders(SubSeq(items, 1, i - 1) \o SubSeq(items, i + 1, Len(items)))} :
                i \in 1..Len(items)}

\* C10: within one pass the order of the table's items does not matter: the
\* items of the spoken table, and of each dialect's table, applied in any
\* order give the text that Style.apply and Pragmatics.dialect return.
C10_OrderIndependent ==
    /\ op = "dialect" =>
        \A items \in C10_Orders(Get(DIALECT_MAP, args.name, <<>>)) : replace_all(args.text, items) = ret
    /\ (op = "Style.apply" /\ args.style = "spoken") =>
        \A items \in C10_Orders(SPOKEN_CONVERSIONS) : replace_all(args.text, items) = ret

\* whether a load_json call was given a malformed record: a file that is not JSON
\* text, or a stem or noun whose value is not a mapping
Malformed(a) ==
    \/ a.verbs_path \in Unparsable
    \/ a.nouns_path \in Unparsable
    \/ \E path \in {a.verbs_path, a.nouns_path} \cap DOMAIN FILES :
          \E i \in 1..Len(FILES[path]) : FILES[path][i][2] = Null

\* whether key k has the same entry, or none, in both tables
AsBefore(before, after, k) ==
    IF k \in DOMAIN before THEN k \in DOMAIN after /\ after[k] = before[k]
    ELSE k \notin DOMAIN after

\* whether the entry of stem k after the call is the whole merge of its record
MergedStem(path, before, after, k) ==
    /\ path \in DOMAIN FILES
    /\ k \in DOMAIN after
    /\ \E i \in 1..Len(FILES[path]) :
        /\ FILES[path][i][1] = k
        /\ FILES[path][i][2] # Null
        /\ after[k] = FILES[path][i][2] @@ Get(before, k, <<>>)

\* whether the entry of noun k after the call is the case mapping of its record
MergedNoun(path, after, k) ==
    /\ path \in DOMAIN FILES
    /\ k \in DOMAIN after
    /\ \E i \in 1..Len(FILES[path]) :
        /\ FILES[path][i][1] = k
        /\ FILES[path][i][2] # Null
        /\ after[k] = FILES[path][i][2]

\* C11: a load_json call that is given a malformed record raises, and leaves
\* every stem's and every noun's entry either as it was before the call or
\* completely merged as its record specifies.
C11_MalformedLoadRejectedWhole ==
    [][op' = "load_json" /\ Malformed(args') =>
        /\ err' # ""
        /\ \A k \in DOMAIN VERB_OVERRIDES \cup DOMAIN VERB_OVERRIDES' :
              \/ AsBefore(VERB_OVERRIDES, VERB_OVERRIDES', k)
              \/ MergedStem(args'.verbs_path, VERB_OVERRIDES, VERB_OVERRIDES', k)
        /\ \A k \in DOMAIN NOUNS \cup DOMAIN NOUNS' :
              \/ AsBefore(NOUNS, NOUNS', k)
              \/ MergedNoun(args'.nouns_path, NOUNS', k)
    ]_vars

\* the closed set of stems of C12: ceeyu, vellu, poo
C12_ClosedStems ==
    {<<"ca", "+ee", "ya", "+u">>, <<"va", "+e", "lla", "+", "lla", "+u">>, <<"pa", "+oo">>}

\* the person suffix of C12 for a subject, by the person and number the pronoun
\* table gives it (third person singular when the table does not have it)
C12_PersonSuffix(subject) ==
    LET person == IF subject \in DOMAIN PRONOUNS THEN PRONOUNS[subject]["person"] ELSE "3"
        num == IF subject \in DOMAIN PRONOUNS THEN PRONOUNS[subject]["num"] ELSE "sg"
    IN  IF person = "1" /\ num = "sg" THEN <<"na", "+u">>
        ELSE IF person = "2" /\ num = "sg" THEN <<"va", "+u">>
        ELSE <<"ra", "+u">>

\* the stem without one trailing "+u"
C12_Bare(stem) ==
    IF Len(stem) > 0 /\ stem[Len(stem)] = "+u" THEN SubSeq(stem, 1, Len(stem) - 1) ELSE stem

\* the one negative particle of C12: kaadu
C12_Particle == <<"ka", "+aa", "da", "+u">>

\* C12: the 'neg' that conjugate returns is its 'form' when polarity is not
\* "negative"; for polarity "negative" and a stem of the closed set it is the
\* stem without one trailing "+u", then nu for a first person singular subject,
\* vu for a second person singular subject and ru for every other subject; for
\* polarity "negative" and any other stem it is 'form', a space and the one
\* particle kaadu, whatever the tense and the subject.
C12_NegatedForm ==
    op = "conjugate" =>
        ret.neg = IF args.polarity # "negative" THEN ret.form
                  ELSE IF args.stem \in C12_ClosedStems
                       THEN C12_Bare(args.stem) \o C12_PersonSuffix(args.subject)
                  ELSE ret.form \o <<" ">> \o C12_Particle

\* C12, the case: a stem outside the closed set was negated in the present tense,
\* for which the particle table of Morphology has another particle than kaadu
C12_Witness ==
    /\ op = "conjugate"
    /\ args.polarity = "negative"
    /\ args.stem = <<"ra", "+aa">>
    /\ args.tense = "present"
    /\ NEGATION_PARTICLE["present"] # C12_Particle
    /\ ret.neg = ret.form \o <<" ", "ka", "+aa", "da", "+u">>

\* C13: only load_json changes a table: every call of generate, conjugate,
\* decline, join, apply_sequence, Syntax.apply, Style.apply and dialect, returning
\* or raising, leaves the verb override, noun, pronoun, honorific, template,
\* spoken-conversion and dialect tables as they were, and the string a generate
\* call returned is the string generate gives for these arguments on the tables
\* the call left behind, so that an equal call with no load_json in between
\* returns it again.
C13_OnlyLoadJsonWrites ==
    /\ [][op' # "load_json" => UNCHANGED tables]_vars
    /\ [](op = "generate" => ret = generate(args).sent /\ err = generate(args).err)

\* C13, the case: generate was called with an unknown stem and an unknown noun
\* on tables that load_json has changed, and returned
C13_Witness ==
    /\ op = "generate"
    /\ args.verb \notin DOMAIN Seed_VERB_OVERRIDES
    /\ args.verb \in DOMAIN VERB_OVERRIDES
    /\ NOUNS # Seed_NOUNS
    /\ err = ""
    /\ ret # <<>>
    /\ tables = <<VERB_OVERRIDES, NOUNS, Seed_PRONOUNS, Seed_HONORIFICS, Seed_TEMPLATES,
                  Seed_SPOKEN_CONVERSIONS, Seed_DIALECT_MAP>>
====
